---- MODULE Spec2Model ----
(***************************************************************************)
(* Model of the untrusted-file admission pipeline of the image / PDF       *)
(* compression tool: FileSecurityValidator (src/lib/security.ts),          *)
(* ClientFileScanner (src/lib/client-scanner.ts) and the ImageOptimizer    *)
(* component's handlers (src/components/image-optimizer.tsx).              *)
(*                                                                         *)
(* A file is a record                                                      *)
(*   name   : the file name, a tuple of one-character strings              *)
(*   size   : file.size in bytes                                           *)
(*   type   : file.type, the media type DECLARED by the caller             *)
(*   head   : the explicit leading bytes of the content                    *)
(*   tail   : the explicit trailing bytes of the content                   *)
(*            (every byte between head and tail is 0)                      *)
(*   decode : what the browser's image decoder does with the content       *)
(*            ("ok", "error", or "timeout" = no event within 5 seconds)    *)
(*   width, height : the decoded picture's dimensions                      *)
(*   pages  : the number of pages a PDF reader finds in the content        *)
(***************************************************************************)
EXTENDS Integers, Sequences, FiniteSets, Bags, TLC

\* ------------------------------------------------------------------------
\* Bounds of the model
\* ------------------------------------------------------------------------
MaxCalls == 2
MaxOps == 3

\* ------------------------------------------------------------------------
\* Program constants
\* ------------------------------------------------------------------------
MiB == 1024 * 1024
MAX_FILE_SIZE == 50 * 1024 * 1024
MIN_FILE_SIZE == 100
MaxNameLength == 255
MaxImageDimension == 10000
SignatureReadLength == 16
PdfTrailerLength == 20

\* ------------------------------------------------------------------------
\* Sequence helpers
\* ------------------------------------------------------------------------
Min(a, b) == IF a <= b THEN a ELSE b

Max(a, b) == IF a >= b THEN a ELSE b

Repeat(x, n) == [i \in 1..n |-> x]

\* s contains p as a contiguous subsequence (String.prototype.includes)
Includes(s, p) ==
  \E i \in 0..(Len(s) - Len(p)) : \A j \in 1..Len(p) : s[i + j] = p[j]

\* s ends with p
EndsWith(s, p) ==
  /\ Len(s) >= Len(p)
  /\ \A j \in 1..Len(p) : s[Len(s) - Len(p) + j] = p[j]

\* ------------------------------------------------------------------------
\* Characters of file names
\* ------------------------------------------------------------------------
UpperCase == {"A", "D", "E", "G", "J", "N", "P", "X"}

toLowerCase(c) ==
  CASE c = "A" -> "a" [] c = "D" -> "d" [] c = "E" -> "e" [] c = "G" -> "g"
    [] c = "J" -> "j" [] c = "N" -> "n" [] c = "P" -> "p" [] c = "X" -> "x"
    [] OTHER -> c

LowerName(name) == [i \in 1..Len(name) |-> toLowerCase(name[i])]

\* the characters of \x00-\x1f that a name of the model can carry
ControlChars == {"\t", "\n", "\r"}

\* /[<>:"/\\|?*\x00-\x1f]/
dangerousChars == {"<", ">", ":", "\"", "/", "\\", "|", "?", "*"} \cup ControlChars

\* ------------------------------------------------------------------------
\* Bytes of a file
\* ------------------------------------------------------------------------
\* the byte at offset i (0-based) of the content
ByteAt(f, i) ==
  IF i < Len(f.head) THEN f.head[i + 1]
  ELSE IF i >= f.size - Len(f.tail) THEN f.tail[i - (f.size - Len(f.tail)) + 1]
  ELSE 0

\* file.slice(start, start + length) read into a byte array
readFileBytes(f, start, length) ==
  [i \in 1..Max(0, Min(length, f.size - start)) |-> ByteAt(f, start + i - 1)]

\* bytes.slice(-n) of the whole content
SliceLast(f, n) ==
  [i \in 1..Min(n, f.size) |-> ByteAt(f, f.size - Min(n, f.size) + i - 1)]

\* ------------------------------------------------------------------------
\* ALLOWED_FILE_SIGNATURES, in table order
\* ------------------------------------------------------------------------
ALLOWED_FILE_SIGNATURES ==
  << [signature |-> <<255, 216, 255>>, mimeType |-> "image/jpeg"],
     [signature |-> <<137, 80, 78, 71, 13, 10, 26, 10>>, mimeType |-> "image/png"],
     [signature |-> <<71, 73, 70, 56>>, mimeType |-> "image/gif"],
     [signature |-> <<82, 73, 70, 70>>, mimeType |-> "image/webp"],
     [signature |-> <<37, 80, 68, 70>>, mimeType |-> "application/pdf"] >>

ImageTypes == {"image/jpeg", "image/png", "image/gif", "image/webp"}

\* file.type.startsWith('image/') over the media types of the model
startsWithImage(t) == t \in ImageTypes \cup {"image/bmp"}

\* ------------------------------------------------------------------------
\* Text decoding
\* ------------------------------------------------------------------------
ReplacementChar == 65533

\* TextDecoder('utf-8', {fatal: false}).decode: the UTF-16 code units of the
\* decoded text; every maximal ill-formed byte sequence becomes one U+FFFD
CodeUnits(cp) ==
  IF cp < 65536 THEN <<cp>>
  ELSE <<55296 + ((cp - 65536) \div 1024), 56320 + ((cp - 65536) % 1024)>>

\* the number of continuation bytes the lead byte c announces
Need(c) ==
  IF c >= 194 /\ c <= 223 THEN 1
  ELSE IF c >= 224 /\ c <= 239 THEN 2
  ELSE IF c >= 240 /\ c <= 244 THEN 3
  ELSE 0

IsCont(b, i, lo, hi) == i <= Len(b) /\ b[i] >= lo /\ b[i] <= hi

\* the number of bytes the sequence that starts at offset j takes
Extent(b, j) ==
  LET c == b[j]
      lo2 == IF c = 224 THEN 160 ELSE IF c = 240 THEN 144 ELSE 128
      hi2 == IF c = 237 THEN 159 ELSE IF c = 244 THEN 143 ELSE 191
  IN IF Need(c) = 0 \/ ~IsCont(b, j + 1, lo2, hi2) THEN 1
     ELSE IF Need(c) = 1 \/ ~IsCont(b, j + 2, 128, 191) THEN 2
     ELSE IF Need(c) = 2 \/ ~IsCont(b, j + 3, 128, 191) THEN 3
     ELSE 4

\* the code units the sequence that starts at offset j decodes to
Emit(b, j) ==
  LET c == b[j]
  IN IF c < 128 THEN <<c>>
     ELSE IF Need(c) = 0 \/ Extent(b, j) # Need(c) + 1 THEN <<ReplacementChar>>
     ELSE IF Need(c) = 1 THEN <<(c - 192) * 64 + (b[j + 1] - 128)>>
     ELSE IF Need(c) = 2
       THEN <<(c - 224) * 4096 + (b[j + 1] - 128) * 64 + (b[j + 2] - 128)>>
     ELSE CodeUnits((c - 240) * 262144 + (b[j + 1] - 128) * 4096
                      + (b[j + 2] - 128) * 64 + (b[j + 3] - 128))

Utf8Decode(b) ==
  LET \* a byte belongs to the sequence of a lead byte at most 3 places before
      Covered(i) ==
        \E j \in Max(1, i - 3)..(i - 1) : Need(b[j]) > 0 /\ j + Extent(b, j) > i
      \* the code units decoded from the bytes lo..hi, by halves
      RECURSIVE Decoded(_, _)
      Decoded(lo, hi) ==
        IF lo > hi THEN <<>>
        ELSE IF lo = hi THEN (IF Covered(lo) THEN <<>> ELSE Emit(b, lo))
        ELSE Decoded(lo, (lo + hi) \div 2) \o Decoded((lo + hi) \div 2 + 1, hi)
  IN Decoded(1, Len(b))

\* ------------------------------------------------------------------------
\* FileSecurityValidator
\*   reasons: "too-large"  = 'ファイルサイズが大きすぎます'
\*            "too-small"  = 'ファイルサイズが小さすぎます'
\*            "bad-chars"  = 'ファイル名に不正な文字が含まれています'
\*            "executable" = '実行可能ファイルはアップロードできません'
\*            "name-too-long" = 'ファイル名が長すぎます'
\*            "unsupported-format" = 'サポートされていないファイル形式です'
\*            "signature-read-failed" = 'ファイル形式の検証に失敗しました'
\*            "image-timeout" = '画像ファイルの読み込みがタイムアウトしました'
\*            "image-too-large" = '画像のサイズが大きすぎます'
\*            "image-corrupt" = '破損した画像ファイルです'
\*            "invalid-pdf" = '不正なPDFファイルです'
\*            "pdf-read-failed" = 'PDFファイルの検証に失敗しました'
\* ------------------------------------------------------------------------
Verdict(v, e, t) == [valid |-> v, error |-> e, fileType |-> t]

\* a plausible slip: <= in place of < at the lower bound
validateFileSizeOffByOne(f) ==
  IF f.size > MAX_FILE_SIZE THEN Verdict(FALSE, "too-large", "")
  ELSE IF f.size <= MIN_FILE_SIZE THEN Verdict(FALSE, "too-small", "")
  ELSE Verdict(TRUE, "", "")

validateFileSize(f) ==
  IF f.size > MAX_FILE_SIZE THEN Verdict(FALSE, "too-large", "")
  ELSE IF f.size < MIN_FILE_SIZE THEN Verdict(FALSE, "too-small", "")
  ELSE Verdict(TRUE, "", "")

executableExtensions ==
  { <<".", "e", "x", "e">>, <<".", "b", "a", "t">>, <<".", "c", "m", "d">>,
    <<".", "c", "o", "m">>, <<".", "p", "i", "f">>, <<".", "s", "c", "r">>,
    <<".", "v", "b", "s">>, <<".", "j", "s">>, <<".", "j", "a", "r">>,
    <<".", "a", "p", "p">>, <<".", "d", "e", "b">>, <<".", "p", "k", "g">>,
    <<".", "d", "m", "g">> }

\* a plausible slip: the i flag is missing
HasExecutableExtensionCaseSensitive(fileName) ==
  \E e \in executableExtensions : EndsWith(fileName, e)

\* /\.(exe|bat|cmd|com|pif|scr|vbs|js|jar|app|deb|pkg|dmg)$/i .test(fileName)
HasExecutableExtension(fileName) ==
  \E e \in executableExtensions : EndsWith(LowerName(fileName), e)

validateFileName(fileName) ==
  IF \E i \in 1..Len(fileName) : fileName[i] \in dangerousChars
    THEN Verdict(FALSE, "bad-chars", "")
  ELSE IF HasExecutableExtension(fileName)
    THEN Verdict(FALSE, "executable", "")
  ELSE IF Len(fileName) > MaxNameLength
    THEN Verdict(FALSE, "name-too-long", "")
  ELSE Verdict(TRUE, "", "")

matchesSignature(bytes, signature) ==
  /\ Len(bytes) >= Len(signature)
  /\ \A i \in 1..Len(signature) : bytes[i] = signature[i]

\* index of the first table entry whose signature matches, 0 when none does
FirstMatch(bytes) ==
  LET hits == { k \in 1..Len(ALLOWED_FILE_SIGNATURES) :
                  matchesSignature(bytes, ALLOWED_FILE_SIGNATURES[k].signature) }
  IN IF hits = {} THEN 0 ELSE CHOOSE k \in hits : \A m \in hits : k <= m

validateFileSignature(f) ==
  IF ~f.readable THEN Verdict(FALSE, "signature-read-failed", "")
  ELSE LET bytes == readFileBytes(f, 0, SignatureReadLength)
           k == FirstMatch(bytes)
       IN IF k = 0 THEN Verdict(FALSE, "unsupported-format", "")
          ELSE Verdict(TRUE, "", ALLOWED_FILE_SIGNATURES[k].mimeType)

\* the verdict the decode probe resolves with: the first of onload, onerror
\* and the 5-second timer decides
validateImageContent(f) ==
  CASE f.decode = "timeout" -> Verdict(FALSE, "image-timeout", "")
    [] f.decode = "error" -> Verdict(FALSE, "image-corrupt", "")
    [] OTHER -> IF f.width > MaxImageDimension \/ f.height > MaxImageDimension
                  THEN Verdict(FALSE, "image-too-large", "")
                  ELSE Verdict(TRUE, "", "")


\* '%%EOF'
endMarker == <<37, 37, 69, 79, 70>>

validatePDFContent(f) ==
  IF ~f.readable THEN Verdict(FALSE, "pdf-read-failed", "")
  ELSE LET fileEnd == Utf8Decode(SliceLast(f, PdfTrailerLength))
       IN IF ~Includes(fileEnd, endMarker) THEN Verdict(FALSE, "invalid-pdf", "")
          ELSE Verdict(TRUE, "", "")

\* which structural probe validateFileContent dispatches to
ContentProbe(f) ==
  IF startsWithImage(f.type) THEN "image"
  ELSE IF f.type = "application/pdf" THEN "pdf"
  ELSE "none"

validateFileContent(f) ==
  CASE ContentProbe(f) = "image" -> validateImageContent(f)
    [] ContentProbe(f) = "pdf" -> validatePDFContent(f)
    [] OTHER -> Verdict(TRUE, "", "")

\* validateFile: the four gates in order, the first failure wins.  Besides
\* the verdict the result records which gates ran (ran), which probe ran
\* (probe) and how many reads of the file's bytes were issued (reads).
validateFile(f) ==
  LET sizeValidation == validateFileSize(f)
      nameValidation == validateFileName(f.name)
      signatureValidation == validateFileSignature(f)
      contentValidation == validateFileContent(f)
      Out(v, ran, probe, reads) ==
        [valid |-> v.valid, error |-> v.error, fileType |-> v.fileType,
         ran |-> ran, probe |-> probe, reads |-> reads]
  IN IF ~sizeValidation.valid
       THEN Out(sizeValidation, <<"size">>, "none", 0)
     ELSE IF ~nameValidation.valid
       THEN Out(nameValidation, <<"size", "name">>, "none", 0)
     ELSE IF ~signatureValidation.valid
       THEN Out(signatureValidation, <<"size", "name", "signature">>, "none", 1)
     ELSE IF ~contentValidation.valid
       THEN Out(contentValidation, <<"size", "name", "signature", "content">>,
                ContentProbe(f), IF ContentProbe(f) = "none" THEN 1 ELSE 2)
     ELSE Out(Verdict(TRUE, "", signatureValidation.fileType),
              <<"size", "name", "signature", "content">>,
              ContentProbe(f), IF ContentProbe(f) = "none" THEN 1 ELSE 2)

\* ------------------------------------------------------------------------
\* ClientFileScanner
\*   threats:  "exec-extension"  = '実行可能ファイル拡張子が検出されました'
\*             "unicode-control" = 'Unicode制御文字が検出されました'
\*             "dangerous-pattern" = '危険なコードパターンが検出されました'
\*   warnings: "double-extension" = '二重拡張子が検出されました'
\*             "long-name" = 'ファイル名が異常に長すぎます'
\*             "suspicious-commands" = '疑わしいコマンドが複数検出されました'
\*             "high-entropy" = '高エントロピーコンテンツが検出されました…'
\*             "archive" = 'アーカイブファイルが検出されました'
\*             "hidden-stream" = '隠しデータストリームの可能性があります'
\*             "scan-error" = 'スキャン中にエラーが発生しました'
\* ------------------------------------------------------------------------
Letters ==
  { "a", "b", "c", "d", "e", "f", "g", "h", "i", "j", "k", "l", "m", "n", "o",
    "p", "q", "r", "s", "t", "u", "v", "w", "x", "y", "z" } \cup UpperCase

\* the characters U+200E, U+200F, U+202A..U+202E, each one token of a name
UnicodeControls == {"U+200E", "U+200F", "U+202A", "U+202B", "U+202C", "U+202D", "U+202E"}

scannerExtensions == executableExtensions \cup { <<".", "m", "s", "i">> }

\* /\.[a-zA-Z]{2,4}\.[a-zA-Z]{2,4}$/ .test(fileName)
doubleExtension(fileName) ==
  \E a \in 2..4, b \in 2..4 :
    LET n == Len(fileName)
        d2 == n - b
        d1 == d2 - a - 1
    IN /\ d1 >= 1
       /\ fileName[d1] = "."
       /\ fileName[d2] = "."
       /\ \A i \in (d1 + 1)..(d2 - 1) : fileName[i] \in Letters
       /\ \A i \in (d2 + 1)..n : fileName[i] \in Letters

EmptyScan == [safe |-> TRUE, threats |-> <<>>, warnings |-> <<>>]

AddThreat(result, t) ==
  [result EXCEPT !.safe = FALSE, !.threats = Append(@, t)]

\* a plausible slip: a warning marks the file unsafe
AddWarningUnsafe(result, w) ==
  [result EXCEPT !.safe = FALSE, !.warnings = Append(@, w)]

AddWarning(result, w) == [result EXCEPT !.warnings = Append(@, w)]

scanFileName(fileName, result) ==
  LET r1 == IF \E e \in scannerExtensions : EndsWith(LowerName(fileName), e)
              THEN AddThreat(result, "exec-extension") ELSE result
      r2 == IF doubleExtension(fileName)
              THEN AddWarning(r1, "double-extension") ELSE r1
      r3 == IF Len(fileName) > MaxNameLength
              THEN AddWarning(r2, "long-name") ELSE r2
  IN IF \E i \in 1..Len(fileName) : fileName[i] \in UnicodeControls
       THEN AddThreat(r3, "unicode-control") ELSE r3

\* lower-casing of the ASCII letters (the only characters whose case the
\* patterns and the suspicious strings depend on)
LowerCode(c) == IF c >= 65 /\ c <= 90 THEN c + 32 ELSE c

LowerText(t) == [i \in 1..Len(t) |-> LowerCode(t[i])]

\* \s of a regular expression
WhiteSpace ==
  {9, 10, 11, 12, 13, 32, 160, 5760, 8232, 8233, 8239, 8287, 12288, 65279}
    \cup 8192..8202

\* lit (lower case) occurs in t at offset i (0-based), ignoring case
LitAt(t, i, lit) ==
  /\ i + Len(lit) <= Len(t)
  /\ \A j \in 1..Len(lit) : LowerCode(t[i + j]) = lit[j]

\* /<tag[^>]*>/i
TagPattern(t, lit) ==
  \E i \in 0..(Len(t) - Len(lit)) :
    /\ LitAt(t, i, lit)
    /\ \E j \in (i + Len(lit) + 1)..Len(t) : t[j] = 62

\* /word\s*\(/i
CallPattern(t, lit) ==
  \E i \in 0..(Len(t) - Len(lit)) :
    /\ LitAt(t, i, lit)
    /\ \E j \in (i + Len(lit) + 1)..Len(t) :
          /\ t[j] = 40
          /\ \A k \in (i + Len(lit) + 1)..(j - 1) : t[k] \in WhiteSpace

\* /MZ[\x00-\xff]{58}PE/
PePattern(t) ==
  \E i \in 1..(Len(t) - 61) :
    /\ t[i] = 77 /\ t[i + 1] = 90
    /\ \A k \in (i + 2)..(i + 59) : t[k] <= 255
    /\ t[i + 60] = 80 /\ t[i + 61] = 69

\* DANGEROUS_PATTERNS, in table order: pattern k matches the text
DangerousPatternCount == 12

DANGEROUS_PATTERNS(k, t) ==
  CASE k = 1 -> TagPattern(t, <<60, 115, 99, 114, 105, 112, 116>>)
    [] k = 2 -> Includes(LowerText(t), <<106, 97, 118, 97, 115, 99, 114, 105, 112, 116, 58>>)
    [] k = 3 -> CallPattern(t, <<101, 118, 97, 108>>)
    [] k = 4 -> CallPattern(t, <<115, 101, 116, 116, 105, 109, 101, 111, 117, 116>>)
    [] k = 5 -> CallPattern(t, <<115, 101, 116, 105, 110, 116, 101, 114, 118, 97, 108>>)
    [] k = 6 -> TagPattern(t, <<60, 105, 102, 114, 97, 109, 101>>)
    [] k = 7 -> TagPattern(t, <<60, 111, 98, 106, 101, 99, 116>>)
    [] k = 8 -> TagPattern(t, <<60, 101, 109, 98, 101, 100>>)
    [] k = 9 -> TagPattern(t, <<60, 102, 111, 114, 109>>)
    [] k = 10 -> PePattern(t)
    [] k = 11 -> Includes(t, <<127, 69, 76, 70>>)
    [] OTHER -> Includes(t, <<207, 250, 237, 254>>)

\*  1: cmd.exe  2: powershell  3: bash  4: sh  5: /bin/  6: system(  7: exec(
\*  8: shell_exec  9: passthru  10: proc_open  11: popen
\* 12: file_get_contents  13: curl_exec  14: wget  15: download
SUSPICIOUS_STRINGS ==
  << <<99, 109, 100, 46, 101, 120, 101>>,
     <<112, 111, 119, 101, 114, 115, 104, 101, 108, 108>>,
     <<98, 97, 115, 104>>,
     <<115, 104>>,
     <<47, 98, 105, 110, 47>>,
     <<115, 121, 115, 116, 101, 109, 40>>,
     <<101, 120, 101, 99, 40>>,
     <<115, 104, 101, 108, 108, 95, 101, 120, 101, 99>>,
     <<112, 97, 115, 115, 116, 104, 114, 117>>,
     <<112, 114, 111, 99, 95, 111, 112, 101, 110>>,
     <<112, 111, 112, 101, 110>>,
     <<102, 105, 108, 101, 95, 103, 101, 116, 95, 99, 111, 110, 116, 101, 110, 116, 115>>,
     <<99, 117, 114, 108, 95, 101, 120, 101, 99>>,
     <<119, 103, 101, 116>>,
     <<100, 111, 119, 110, 108, 111, 97, 100>> >>

SuspiciousLimit == 2
EntropyWindow == 1000
ContentScanLimit == 1024 * 1024
StructureScanLimit == 512

\* calculateEntropy(text) > 7.5.  The entropy of a text is at most log2 of
\* the number of distinct characters in it, and log2(181) < 7.5: a text with
\* at most 181 distinct characters is below the threshold.  Above that count
\* the entropy is that of the uniform text only when every character occurs
\* equally often, which is then log2(count) > 7.5.
MaxLowEntropyAlphabet == 181

HighEntropy(text) ==
  LET chars == { text[i] : i \in 1..Len(text) }
      Count(c) == Cardinality({ i \in 1..Len(text) : text[i] = c })
  IN /\ Cardinality(chars) > MaxLowEntropyAlphabet
     /\ \A c, d \in chars : Count(c) = Count(d)

\* the patterns of DANGEROUS_PATTERNS that match the text
MatchingPatterns(content) ==
  { k \in 1..DangerousPatternCount : DANGEROUS_PATTERNS(k, content) }

\* a plausible slip: the loop over the patterns has no break
checkDangerousPatternsNoBreak(content, result) ==
  LET n == Cardinality(MatchingPatterns(content))
  IN [result EXCEPT !.safe = (n = 0) /\ @,
                    !.threats = @ \o [i \in 1..n |-> "dangerous-pattern"]]

\* for (const pattern of DANGEROUS_PATTERNS) if (pattern.test(content)) { ...; break; }
checkDangerousPatterns(content, result) ==
  IF MatchingPatterns(content) # {}
    THEN AddThreat(result, "dangerous-pattern") ELSE result

\* the text scanFileContent examines
ScannedText(f) == Utf8Decode(readFileBytes(f, 0, Min(f.size, ContentScanLimit)))

scanFileContent(f, result) ==
  IF ~f.readable THEN result
  ELSE
    LET content == ScannedText(f)
        r1 == checkDangerousPatterns(content, result)
        suspiciousCount ==
          Cardinality({ k \in 1..Len(SUSPICIOUS_STRINGS) :
                          Includes(LowerText(content), SUSPICIOUS_STRINGS[k]) })
        r2 == IF suspiciousCount > SuspiciousLimit
                THEN AddWarning(r1, "suspicious-commands") ELSE r1
    IN IF HighEntropy(SubSeq(content, 1, Min(Len(content), EntropyWindow)))
         THEN AddWarning(r2, "high-entropy") ELSE r2

isZipFile(bytes) == Len(bytes) >= 4 /\ bytes[1] = 80 /\ bytes[2] = 75

\* ':$DATA'
adsPattern == <<58, 36, 68, 65, 84, 65>>

\* for (i = 0; i < bytes.length - adsPattern.length; i++) ...
hasHiddenStreams(bytes) ==
  \E i \in 0..(Len(bytes) - Len(adsPattern) - 1) :
    \A j \in 1..Len(adsPattern) : bytes[i + j] = adsPattern[j]

scanFileStructure(f, result) ==
  IF ~f.readable THEN result
  ELSE
    LET headerSize == Min(f.size, StructureScanLimit)
        bytes == readFileBytes(f, 0, headerSize)
        r1 == IF isZipFile(bytes) THEN AddWarning(result, "archive") ELSE result
    IN IF hasHiddenStreams(bytes) THEN AddWarning(r1, "hidden-stream") ELSE r1

scanFile(f) ==
  scanFileStructure(f, scanFileContent(f, scanFileName(f.name, EmptyScan)))

\* ------------------------------------------------------------------------
\* The files presented to the validator
\* ------------------------------------------------------------------------
NameJpg == <<"a", ".", "j", "p", "g">>
NamePng == <<"a", ".", "p", "n", "g">>
NamePdf == <<"a", ".", "p", "d", "f">>
NamePdfExe == <<"a", ".", "p", "d", "f", ".", "e", "x", "e">>
NameUpperExe == <<"a", ".", "E", "X", "E">>
NameJs == <<"a", ".", "j", "s">>
NameNoDot == <<"e", "x", "e">>
NameBadChar == <<"a", "<", ".", "p", "n", "g">>
NameControl == <<"a", "\n", ".", "j", "p", "g">>
NameLong == Repeat("a", MaxNameLength + 1)
NameLongExe == Repeat("a", MaxNameLength) \o <<".", "e", "x", "e">>

Names ==
  { NameJpg, NamePng, NamePdf, NamePdfExe, NameUpperExe, NameJs, NameNoDot,
    NameBadChar, NameControl, NameLong, NameLongExe }

Sizes == {0, MIN_FILE_SIZE - 1, MIN_FILE_SIZE, MAX_FILE_SIZE, MAX_FILE_SIZE + 1}

DeclaredTypes == {"", "image/jpeg", "image/png", "application/pdf", "text/plain"}

HeadJpeg == <<255, 216, 255, 224>>
HeadPng == <<137, 80, 78, 71, 13, 10, 26, 10>>
HeadGif == <<71, 73, 70, 56, 57, 97>>
HeadRiff == <<82, 73, 70, 70>>
HeadPdf == <<37, 80, 68, 70, 45>>
HeadExe == <<77, 90, 144, 0>>
HeadShortJpeg == <<255, 216>>

Heads == {HeadJpeg, HeadPng, HeadGif, HeadRiff, HeadPdf, HeadExe, HeadShortJpeg, <<>>}

\* '%%EOF\n', and '%%EOF' followed by 16 more bytes (so that the marker
\* starts 21 bytes before the end)
TailEof == <<37, 37, 69, 79, 70, 10>>
TailEofFar == <<37, 37, 69, 79, 70>> \o Repeat(32, 16)

Tails == {<<>>, TailEof, TailEofFar}

Decodes ==
  { [decode |-> "ok", width |-> 600, height |-> 400],
    [decode |-> "ok", width |-> MaxImageDimension, height |-> MaxImageDimension],
    [decode |-> "ok", width |-> MaxImageDimension + 1, height |-> 400],
    [decode |-> "ok", width |-> 400, height |-> MaxImageDimension + 1],
    [decode |-> "error", width |-> 0, height |-> 0],
    [decode |-> "timeout", width |-> 0, height |-> 0] }

MkFile(n, sz, t, h, tl, d, r, pg) ==
  [name |-> n, size |-> sz, type |-> t, head |-> h, tail |-> tl,
   decode |-> d.decode, width |-> d.width, height |-> d.height,
   readable |-> r, pages |-> pg]

\* the media type the content's signature stands for ("" when none)
SniffedType(h) ==
  IF FirstMatch(h) = 0 THEN "" ELSE ALLOWED_FILE_SIGNATURES[FirstMatch(h)].mimeType

\* A file is well-formed when its explicit bytes fit in its size, when only
\* content with an image signature decodes as a picture, and when content
\* that cannot be read does not decode.
Files ==
  { MkFile(n, sz, t, h, tl, d, r, IF SniffedType(h) = "application/pdf" THEN 1 ELSE 0) :
      n \in Names, sz \in Sizes, t \in DeclaredTypes, h \in Heads, tl \in Tails,
      d \in Decodes, r \in BOOLEAN }

WellFormed(f) ==
  /\ Len(f.head) + Len(f.tail) <= f.size
  /\ f.decode = "ok" => SniffedType(f.head) \in ImageTypes
  /\ ~f.readable => f.decode = "error"

NoResult ==
  [valid |-> FALSE, error |-> "none", fileType |-> "", ran |-> <<>>,
   probe |-> "none", reads |-> 0]

\* ------------------------------------------------------------------------
\* The files presented to the pipeline
\* ------------------------------------------------------------------------
NameDouble == <<"a", ".", "j", "p", "g", ".", "p", "n", "g">>

Picture(w, h) == [decode |-> "ok", width |-> w, height |-> h]

Broken == [decode |-> "error", width |-> 0, height |-> 0]

\* '<script>' behind a JPEG signature
HeadJpegScript == HeadJpeg \o <<60, 115, 99, 114, 105, 112, 116, 62>>

PipeFiles ==
  { \* a JPEG with a double extension: the scanner warns
    MkFile(NameDouble, MIN_FILE_SIZE, "image/jpeg", HeadJpeg, <<>>, Picture(600, 400), TRUE, 0),
    \* a JPEG carrying a script tag: the scanner finds a threat
    MkFile(NameJpg, MIN_FILE_SIZE, "image/jpeg", HeadJpegScript, <<>>, Picture(600, 400), TRUE, 0),
    \* a file that is too small
    MkFile(NameJpg, MIN_FILE_SIZE - 1, "image/jpeg", HeadJpeg, <<>>, Picture(600, 400), TRUE, 0),
    \* a PDF document of two pages
    MkFile(NamePdf, MIN_FILE_SIZE, "application/pdf", HeadPdf, TailEof, Broken, TRUE, 2) }

\* the page counts of the documents presented to compressPDF alone: each
\* divides 70, so that 20 + (pageNum / numPages) * 70 is a whole number
PdfPageCounts == {1, 2, 5, 7, 10}

PdfDocuments ==
  { MkFile(NamePdf, MIN_FILE_SIZE, "application/pdf", HeadPdf, TailEof, Broken, TRUE, n) :
      n \in PdfPageCounts }

AllFiles == PipeFiles \cup PdfDocuments

\* ------------------------------------------------------------------------
\* The files presented to the scanner
\* ------------------------------------------------------------------------
NameMsi == <<"a", ".", "m", "s", "i">>
NameBidi == <<"a", "U+202E", "g", "p", "j", ".", "e", "x", "e">>

ScanNames == {NameJpg, NameDouble, NameMsi, NameBidi, NameLong}

\* '<script>alert(1)</script>'
TextScript ==
  <<60, 115, 99, 114, 105, 112, 116, 62, 97, 108, 101, 114, 116, 40, 49, 41,
    60, 47, 115, 99, 114, 105, 112, 116, 62>>

\* '<SCRIPT>eval (1)': two patterns match
TextScriptEval ==
  <<60, 83, 67, 82, 73, 80, 84, 62, 101, 118, 97, 108, 32, 40, 49, 41>>

\* 'bash wget download': three suspicious strings and 'sh' inside 'bash'
TextCommands ==
  <<98, 97, 115, 104, 32, 119, 103, 101, 116, 32, 100, 111, 119, 110, 108,
    111, 97, 100>>

\* 'PK' 03 04
HeadZip == <<80, 75, 3, 4>>

\* the 200 characters U+0100..U+01C7 in UTF-8, once each
TextDistinctLength == 400

TextDistinct ==
  [i \in 1..TextDistinctLength |->
     LET c == 256 + (i - 1) \div 2
     IN IF i % 2 = 1 THEN 192 + (c \div 64) ELSE 128 + (c % 64)]

ScanHeads ==
  { HeadJpeg, HeadJpeg \o TextScript, HeadJpeg \o TextScriptEval,
    HeadJpeg \o TextCommands, HeadZip, TextDistinct }

\* ':$DATA' as the last six bytes, and one byte before the end
ScanTails == { <<>>, <<58, 36, 68, 65, 84, 65>>, <<58, 36, 68, 65, 84, 65, 0>> }

ScanSizes == {MIN_FILE_SIZE, TextDistinctLength, 512, 600}

ScanFiles ==
  { f \in { MkFile(n, sz, "image/jpeg", h, tl, Broken, r, 0) :
              n \in ScanNames, sz \in ScanSizes, h \in ScanHeads,
              tl \in ScanTails, r \in BOOLEAN } :
      Len(f.head) + Len(f.tail) <= f.size }

\* ------------------------------------------------------------------------
\* The images presented to the raster transcoder
\* ------------------------------------------------------------------------
SourceWidths == {1, 2, 600, 1919, 1920, 1921, 2001, 3840, 9999, MaxImageDimension}

SourceHeights == {1, 2, 400, 1079, 1080, 1081, 2160, 3000, 9999, MaxImageDimension}

SourceTypes == {"", "image/jpeg", "image/png", "image/gif"}

SourceHeads == {HeadJpeg, HeadPng, HeadGif}

SourceImages ==
  { MkFile(NameJpg, MIN_FILE_SIZE, t, h, <<>>, Picture(w, ht), TRUE, 0) :
      t \in SourceTypes, h \in SourceHeads, w \in SourceWidths, ht \in SourceHeights }

\* ------------------------------------------------------------------------
\* Values of the component's state
\* ------------------------------------------------------------------------
Null == [null |-> TRUE]

InitialQuality == 80

\* the positions of the quality slider the model moves it to
QualityChoices == {10, InitialQuality}

PhaseOrder == <<"file-check", "virus-scan", "content-scan", "compression", "complete">>

IdleCall ==
  [kind |-> "none", pc |-> "idle", file |-> Null, q |-> 0, ftype |-> "",
   vres |-> NoResult, sres |-> EmptyScan, scanned |-> FALSE, asked |-> 0,
   answer |-> "none", transcoder |-> "none", page |-> 0, out |-> <<>>,
   phases |-> <<>>, progs |-> <<>>]

\* ------------------------------------------------------------------------
\* State
\* ------------------------------------------------------------------------
VARIABLES
  input,      \* the argument of the function applied on its own
  output,     \* what the function returned for it
  returned,   \* the function has returned
  vfile,      \* the file handed to validateFile
  vresult,    \* what validateFile returned for it
  vdone,      \* validateFile has returned
  originalFile,
  compressedBlob,
  quality,
  isProcessing,
  processingProgress,
  compressedPreview,
  compressedDimensions,
  fileType,
  scanPhase,
  scanResults,
  calls,      \* the handler invocations in flight, a bag of call records
  timers,     \* how many one-second timers of handleFileSelect are pending
  acted,      \* the invocation that took the latest step, as the step left it
  ops         \* how many handlers have been invoked

ui == <<originalFile, compressedBlob, quality, isProcessing, processingProgress,
        compressedPreview, compressedDimensions, fileType, scanPhase, scanResults>>

applied == <<input, output, returned>>

vars == <<applied, vfile, vresult, vdone, ui, calls, timers, acted, ops>>

\* no function is applied on its own
NotApplied ==
  /\ input = Null
  /\ output = Null
  /\ returned = FALSE

InitUi ==
  /\ originalFile = Null
  /\ compressedBlob = Null
  /\ quality = InitialQuality
  /\ isProcessing = FALSE
  /\ processingProgress = 0
  /\ compressedPreview = Null
  /\ compressedDimensions = Null
  /\ fileType = "image"
  /\ scanPhase = "file-check"
  /\ scanResults = [safe |-> TRUE, warnings |-> <<>>]
  /\ calls = EmptyBag
  /\ timers = 0
  /\ acted = IdleCall
  /\ ops = 0

\* ------------------------------------------------------------------------
\* The transcoders
\* ------------------------------------------------------------------------
MaxOutputWidth == 1920
MaxOutputHeight == 1080

RECURSIVE Gcd(_, _)
Gcd(a, b) == IF b = 0 THEN a ELSE Gcd(b, a % b)

\* the fraction n / d in lowest terms
Frac(n, d) == [n |-> n \div Gcd(n, d), d |-> d \div Gcd(n, d)]

\* (a * x) / y for an integer a and fractions x, y
MulDiv(a, x, y) ==
  LET g == Gcd(a * x.n, y.n)
      h == Gcd(y.d, x.d)
  IN Frac(((a * x.n) \div g) * (y.d \div h), (y.n \div g) * (x.d \div h))

\* Math.round of a non-negative fraction
Round(x) == (2 * x.n + x.d) \div (2 * x.d)

\* a plausible slip: only the width is clamped
calculateDimensionsWidthOnly(originalWidth, originalHeight, maxWidth, maxHeight) ==
  LET overW == originalWidth > maxWidth
      h1 == IF overW THEN Frac(originalHeight * maxWidth, originalWidth)
                     ELSE Frac(originalHeight, 1)
      w1 == IF overW THEN Frac(maxWidth, 1) ELSE Frac(originalWidth, 1)
  IN [width |-> Round(w1), height |-> Round(h1)]

\* calculateDimensions: the width is clamped first, then the height.  The
\* quotients are exact fractions here (the source computes them as doubles).
calculateDimensions(originalWidth, originalHeight, maxWidth, maxHeight) ==
  LET w0 == Frac(originalWidth, 1)
      h0 == Frac(originalHeight, 1)
      overW == originalWidth > maxWidth
      h1 == IF overW THEN Frac(originalHeight * maxWidth, originalWidth) ELSE h0
      w1 == IF overW THEN Frac(maxWidth, 1) ELSE w0
      overH == h1.n > maxHeight * h1.d
      w2 == IF overH THEN MulDiv(maxHeight, w1, h1) ELSE w1
      h2 == IF overH THEN Frac(maxHeight, 1) ELSE h1
  IN [width |-> Round(w2), height |-> Round(h2)]

\* const outputFormat = file.type === 'image/png' ? 'image/png' : 'image/jpeg'
outputFormat(f) == IF f.type = "image/png" THEN "image/png" ELSE "image/jpeg"

\* compressImage(file, quality): the promise's outcome.  envOk is FALSE when
\* the canvas context is not available or the encoder returns no data.
\* canvas: the size the canvas was given (Null when the image does not load).
compressImage(f, q, envOk) ==
  LET resize == f.width > MaxOutputWidth \/ f.height > MaxOutputHeight
      dimensions == IF resize
                      THEN calculateDimensions(f.width, f.height,
                                               MaxOutputWidth, MaxOutputHeight)
                      ELSE [width |-> f.width, height |-> f.height]
      outputQuality == IF f.type = "image/png" THEN 100 ELSE q
  IN IF f.decode # "ok"
       THEN [ok |-> FALSE, blob |-> Null, dimensions |-> Null, canvas |-> Null]
     ELSE IF ~envOk \/ dimensions.width = 0 \/ dimensions.height = 0
       THEN [ok |-> FALSE, blob |-> Null, dimensions |-> Null, canvas |-> dimensions]
       ELSE [ok |-> TRUE,
             blob |-> [kind |-> "image", src |-> f, quality |-> q,
                       type |-> outputFormat(f), encoderQuality |-> outputQuality,
                       width |-> dimensions.width, height |-> dimensions.height],
             dimensions |-> dimensions, canvas |-> dimensions]

\* 20 + (pageNum / numPages) * 70: a whole number for the documents of AllFiles
PageProgress(pageNum, numPages) == 20 + (pageNum * 70) \div numPages

\* page.getViewport({ scale: 1.0 }) in hundredths of a point: the first page
\* of a document is A4 upright (595.28 x 841.89), the others Letter sideways
PageViewport(f, pageNum) ==
  IF pageNum = 1 THEN [width |-> 59528, height |-> 84189]
                 ELSE [width |-> 79200, height |-> 61200]

\* canvas.width = viewport.width; canvas.height = viewport.height (whole
\* pixels), rendered, encoded as JPEG and embedded: the image has the canvas size
RenderedImage(f, pageNum) ==
  [width |-> PageViewport(f, pageNum).width \div 100,
   height |-> PageViewport(f, pageNum).height \div 100]

\* a plausible slip: pdfDoc.addPage() without a size gives the default A4 page
addPageDefaultSize(image) == [width |-> 59528, height |-> 84189]

\* pdfDoc.addPage([image.width, image.height]), in hundredths of a point
addPage(image) == [width |-> image.width * 100, height |-> image.height * 100]

\* the page one turn of the loop appends to the new document
OutputPage(f, pageNum) ==
  LET size == addPage(RenderedImage(f, pageNum))
  IN [source |-> pageNum, width |-> size.width, height |-> size.height]

\* PDFDocument.load(arrayBuffer): the pages of the original document
OriginalPages(f) ==
  [i \in 1..f.pages |-> [source |-> i, width |-> PageViewport(f, i).width,
                                       height |-> PageViewport(f, i).height]]

PdfBlob(f, q, mode, out) ==
  [kind |-> "pdf", src |-> f, quality |-> q, type |-> "application/pdf",
   mode |-> mode, pageList |-> out]

\* ------------------------------------------------------------------------
\* The pipeline: the handlers of ImageOptimizer, one action per stretch of
\* code between two awaits
\* ------------------------------------------------------------------------
ValidationOf == [f \in AllFiles |-> validateFile(f)]

ScanOf == [f \in AllFiles |-> scanFile(f)]

Ui ==
  [originalFile |-> originalFile, compressedBlob |-> compressedBlob,
   quality |-> quality, isProcessing |-> isProcessing,
   processingProgress |-> processingProgress,
   compressedPreview |-> compressedPreview,
   compressedDimensions |-> compressedDimensions, fileType |-> fileType,
   scanPhase |-> scanPhase, scanResults |-> scanResults]

SetUi(u) ==
  /\ originalFile' = u.originalFile
  /\ compressedBlob' = u.compressedBlob
  /\ quality' = u.quality
  /\ isProcessing' = u.isProcessing
  /\ processingProgress' = u.processingProgress
  /\ compressedPreview' = u.compressedPreview
  /\ compressedDimensions' = u.compressedDimensions
  /\ fileType' = u.fileType
  /\ scanPhase' = u.scanPhase
  /\ scanResults' = u.scanResults

\* the invocations in flight
InFlight == BagToSet(calls)

\* the call r goes on as r2.  A call that is done has returned; one at
\* "timer" has returned with the timer of its finally block armed.
SetCall(r, r2) ==
  /\ calls' = IF r2.pc \in {"done", "timer"}
                THEN calls (-) SetToBag({r})
                ELSE (calls (-) SetToBag({r})) (+) SetToBag({r2})
  /\ timers' = IF r2.pc = "timer" THEN timers + 1 ELSE timers
  /\ acted' = r2

\* a handler is invoked: the call r2 is in flight from here on
StartCall(r2) ==
  /\ BagCardinality(calls) + timers < MaxCalls
  /\ calls' = calls (+) SetToBag({r2})
  /\ acted' = r2
  /\ UNCHANGED timers

\* the call's record after it reported the phases ph and the progress values pr
Reported(r, ph, pr) == [r EXCEPT !.phases = @ \o ph, !.progs = @ \o pr]

\* a plausible slip: the abort path forgets setIsProcessing(false)
AbortedStillProcessing(u) ==
  [u EXCEPT !.scanPhase = "file-check", !.processingProgress = 0]

\* setIsProcessing(false); setScanPhase('file-check'); setProcessingProgress(0)
Aborted(u) ==
  [u EXCEPT !.isProcessing = FALSE, !.scanPhase = "file-check",
            !.processingProgress = 0]

\* handleFileSelect, up to the first await
SelectFile(f) ==
  /\ ops < MaxOps
  /\ SetUi([Ui EXCEPT !.isProcessing = TRUE, !.scanPhase = "file-check",
                      !.processingProgress = 5])
  /\ StartCall([IdleCall EXCEPT !.kind = "select", !.pc = "fileCheck",
                               !.file = f, !.q = quality,
                               !.phases = <<"file-check">>,
                               !.progs = <<5>>])
  /\ ops' = ops + 1
  /\ UNCHANGED <<applied, vfile, vresult, vdone>>

\* validateFile returned
FileCheck(r) ==
  LET v == ValidationOf[r.file]
  IN /\ r.pc = "fileCheck"
     /\ IF ~v.valid
          THEN /\ SetUi(Aborted(Ui))
               /\ SetCall(r, Reported([r EXCEPT !.pc = "done", !.vres = v],
                                      <<"file-check">>, <<0>>))
          ELSE /\ SetUi([Ui EXCEPT !.scanPhase = "virus-scan",
                                   !.processingProgress = 15])
               /\ SetCall(r, Reported([r EXCEPT !.pc = "virusScan", !.vres = v],
                                      <<"virus-scan">>, <<15>>))
     /\ UNCHANGED <<applied, vfile, vresult, vdone, ops>>

\* a plausible slip: the test of scanResult.safe is dropped
ThreatNeverBlocks(sc) == FALSE

\* if (!scanResult.safe)
ThreatBlocks(sc) == ~sc.safe

\* a plausible slip: setScanPhase('content-scan') is left out
VirusScanSkipsContentPhase(r) ==
  LET sc == ScanOf[r.file]
      u == [Ui EXCEPT !.scanResults = [safe |-> sc.safe, warnings |-> sc.warnings]]
      r1 == [r EXCEPT !.sres = sc, !.scanned = TRUE]
  IN /\ r.pc = "virusScan"
     /\ IF ThreatBlocks(sc)
          THEN /\ SetUi(Aborted(u))
               /\ SetCall(r, Reported([r1 EXCEPT !.pc = "done"],
                                      <<"file-check">>, <<0>>))
          ELSE /\ SetUi([u EXCEPT !.processingProgress = 25])
               /\ SetCall(r, Reported([r1 EXCEPT !.pc = "contentScan"],
                                      <<>>, <<25>>))
     /\ UNCHANGED <<applied, vfile, vresult, vdone, ops>>

\* scanFile returned
VirusScan(r) ==
  LET sc == ScanOf[r.file]
      u == [Ui EXCEPT !.scanResults = [safe |-> sc.safe, warnings |-> sc.warnings]]
      r1 == [r EXCEPT !.sres = sc, !.scanned = TRUE]
  IN /\ r.pc = "virusScan"
     /\ IF ThreatBlocks(sc)
          THEN /\ SetUi(Aborted(u))
               /\ SetCall(r, Reported([r1 EXCEPT !.pc = "done"],
                                      <<"file-check">>, <<0>>))
          ELSE /\ SetUi([u EXCEPT !.scanPhase = "content-scan",
                                  !.processingProgress = 25])
               /\ SetCall(r, Reported([r1 EXCEPT !.pc = "contentScan"],
                                      <<"content-scan">>, <<25>>))
     /\ UNCHANGED <<applied, vfile, vresult, vdone, ops>>

\* a plausible slip: the answer to the prompt is ignored
NeverDeclined(warned, proceed) == FALSE

\* if (scanResult.warnings.length > 0) { ... if (!proceed) return
Declined(warned, proceed) == warned /\ ~proceed

\* the 800 ms wait is over: the warning prompt, then the transcoder starts
ContentScan(r, proceed) ==
  LET warned == Len(r.sres.warnings) > 0
      r1 == IF warned
              THEN [r EXCEPT !.asked = @ + 1,
                             !.answer = IF proceed THEN "continue" ELSE "abort"]
              ELSE r
      isImage == startsWithImage(r.vres.fileType)
      u == [Ui EXCEPT !.originalFile = r.file,
                      !.fileType = IF isImage THEN "image" ELSE "pdf",
                      !.scanPhase = "compression",
                      !.processingProgress = IF isImage THEN 50 ELSE 40]
  IN /\ r.pc = "contentScan"
     /\ ~warned => proceed
     /\ IF Declined(warned, proceed)
          THEN /\ SetUi(Aborted(Ui))
               /\ SetCall(r, Reported([r1 EXCEPT !.pc = "done"],
                                      <<"file-check">>, <<0>>))
          ELSE /\ SetUi(u)
               /\ SetCall(r, Reported(
                    [r1 EXCEPT !.pc = IF isImage THEN "compressImage" ELSE "pdfRead",
                               !.transcoder = IF isImage THEN "image" ELSE "pdf"],
                    <<"compression">>,
                    IF isImage THEN <<40, 50>> ELSE <<40>>))
     /\ UNCHANGED <<applied, vfile, vresult, vdone, ops>>

\* compressImage settled inside handleFileSelect; the finally block arms the
\* one-second timer
SelectImageDone(r, envOk) ==
  LET res == compressImage(r.file, r.q, envOk)
  IN /\ r.kind = "select"
     /\ r.pc = "compressImage"
     /\ IF res.ok
          THEN /\ SetUi([Ui EXCEPT !.compressedBlob = res.blob,
                                   !.compressedPreview = res.blob,
                                   !.compressedDimensions = res.dimensions,
                                   !.scanPhase = "complete",
                                   !.processingProgress = 100])
               /\ SetCall(r, Reported([r EXCEPT !.pc = "timer"],
                                      <<"complete">>, <<100>>))
          ELSE /\ SetUi(Ui)
               /\ SetCall(r, [r EXCEPT !.pc = "timer"])
     /\ UNCHANGED <<applied, vfile, vresult, vdone, ops>>

\* a plausible slip: the deferred reset leaves out setIsProcessing(false)
TimerFireStillProcessing ==
  /\ timers > 0
  /\ SetUi(AbortedStillProcessing(Ui))
  /\ timers' = timers - 1
  /\ acted' = Reported([IdleCall EXCEPT !.kind = "timer", !.pc = "done"],
                       <<"file-check">>, <<0>>)
  /\ UNCHANGED <<applied, vfile, vresult, vdone, calls, ops>>

\* the timer armed by handleFileSelect's finally block fires
TimerFire ==
  /\ timers > 0
  /\ SetUi(Aborted(Ui))
  /\ timers' = timers - 1
  /\ acted' = Reported([IdleCall EXCEPT !.kind = "timer", !.pc = "done"],
                       <<"file-check">>, <<0>>)
  /\ UNCHANGED <<applied, vfile, vresult, vdone, calls, ops>>

\* compressPDF returned blob to its caller: the rest of the caller's try block
\* and its finally block (u, r1: the state and the call as compressPDF left them)
PdfReturn(r, u, r1, blob) ==
  IF r.kind = "select"
    THEN /\ SetUi([u EXCEPT !.compressedBlob = blob,
                            !.compressedPreview = Null,
                            !.compressedDimensions = Null,
                            !.scanPhase = "complete"])
         /\ SetCall(r, Reported([r1 EXCEPT !.pc = "timer"], <<"complete">>, <<>>))
    ELSE /\ SetUi([u EXCEPT !.compressedBlob = blob,
                            !.isProcessing = FALSE,
                            !.processingProgress = 0])
         /\ SetCall(r, Reported([r1 EXCEPT !.pc = "done"], <<>>, <<0>>))

\* compressPDF threw: the caller's catch and finally blocks
PdfThrow(r) ==
  IF r.kind = "select"
    THEN /\ SetUi(Ui)
         /\ SetCall(r, [r EXCEPT !.pc = "timer"])
    ELSE /\ SetUi([Ui EXCEPT !.isProcessing = FALSE, !.processingProgress = 0])
         /\ SetCall(r, Reported([r EXCEPT !.pc = "done"], <<>>, <<0>>))

\* a plausible slip: the catch block rethrows instead of falling back
PdfCatchRethrows(r) == PdfThrow(r)

\* the optimized path failed: compressPDF's catch block starts the fallback
PdfCatch(r) ==
  /\ SetUi(Ui)
  /\ SetCall(r, [r EXCEPT !.pc = "pdfFallback"])

\* compressPDF: file.arrayBuffer() settled
PdfRead(r) ==
  /\ r.pc = "pdfRead"
  /\ IF r.file.readable
       THEN /\ SetUi([Ui EXCEPT !.processingProgress = 10])
            /\ SetCall(r, Reported([r EXCEPT !.pc = "pdfLoad"], <<>>, <<10>>))
       ELSE PdfThrow(r)
  /\ UNCHANGED <<applied, vfile, vresult, vdone, ops>>

\* compressPDF: getDocument and PDFDocument.create settled
PdfLoad(r, ok) ==
  LET n == r.file.pages
  IN /\ r.pc = "pdfLoad"
     /\ IF ~ok THEN PdfCatch(r)
        ELSE IF n >= 1
          THEN /\ SetUi([Ui EXCEPT !.processingProgress = PageProgress(1, n)])
               /\ SetCall(r, Reported([r EXCEPT !.pc = "pdfPage", !.page = 1],
                                      <<>>, <<20, PageProgress(1, n)>>))
          ELSE /\ SetUi([Ui EXCEPT !.processingProgress = 95])
               /\ SetCall(r, Reported([r EXCEPT !.pc = "pdfSave"],
                                      <<>>, <<20, 95>>))
     /\ UNCHANGED <<applied, vfile, vresult, vdone, ops>>

\* compressPDF: one turn of the page loop (getPage, render, toBlob,
\* arrayBuffer, embedJpg, addPage, drawImage)
PdfPage(r, ok) ==
  LET n == r.file.pages
      r1 == [r EXCEPT !.out = Append(@, OutputPage(r.file, r.page))]
  IN /\ r.pc = "pdfPage"
     /\ IF ~ok THEN PdfCatch(r)
        ELSE IF r.page < n
          THEN /\ SetUi([Ui EXCEPT !.processingProgress = PageProgress(r.page + 1, n)])
               /\ SetCall(r, Reported([r1 EXCEPT !.page = @ + 1],
                                      <<>>, <<PageProgress(r.page + 1, n)>>))
          ELSE /\ SetUi([Ui EXCEPT !.processingProgress = 95])
               /\ SetCall(r, Reported([r1 EXCEPT !.pc = "pdfSave"], <<>>, <<95>>))
     /\ UNCHANGED <<applied, vfile, vresult, vdone, ops>>

\* compressPDF: pdfDoc.save() settled
PdfSave(r, ok) ==
  /\ r.pc = "pdfSave"
  /\ IF ~ok THEN PdfCatch(r)
     ELSE PdfReturn(r, [Ui EXCEPT !.processingProgress = 100],
                    Reported(r, <<>>, <<100>>),
                    PdfBlob(r.file, r.q, "optimized", r.out))
  /\ UNCHANGED <<applied, vfile, vresult, vdone, ops>>

\* compressPDF: the fallback's PDFDocument.load and save settled
PdfFallback(r, ok) ==
  /\ r.pc = "pdfFallback"
  /\ IF ok
       THEN PdfReturn(r, Ui, r,
                      PdfBlob(r.file, r.q, "fallback", OriginalPages(r.file)))
       ELSE PdfThrow(r)
  /\ UNCHANGED <<applied, vfile, vresult, vdone, ops>>

\* handleQualityChange, up to the first await (the slider is rendered only
\* while originalFile is set)
ChangeQuality(newQuality) ==
  LET isImage == fileType = "image"
  IN /\ ops < MaxOps
     /\ originalFile # Null
     /\ newQuality # quality
     /\ SetUi([Ui EXCEPT !.quality = newQuality, !.isProcessing = TRUE,
                         !.processingProgress = IF isImage THEN 50 ELSE 0])
     /\ StartCall([IdleCall EXCEPT
                     !.kind = "quality", !.file = originalFile,
                     !.ftype = fileType, !.q = newQuality,
                     !.pc = IF isImage THEN "compressImage" ELSE "pdfRead",
                     !.transcoder = IF isImage THEN "image" ELSE "pdf",
                     !.progs = IF isImage THEN <<0, 50>> ELSE <<0>>])
     /\ ops' = ops + 1
     /\ UNCHANGED <<applied, vfile, vresult, vdone>>

\* compressImage settled inside handleQualityChange, then its finally block
QualityImageDone(r, envOk) ==
  LET res == compressImage(r.file, r.q, envOk)
      u == IF res.ok
             THEN [Ui EXCEPT !.compressedBlob = res.blob,
                             !.compressedPreview = res.blob,
                             !.compressedDimensions = res.dimensions]
             ELSE Ui
  IN /\ r.kind = "quality"
     /\ r.pc = "compressImage"
     /\ SetUi([u EXCEPT !.isProcessing = FALSE, !.processingProgress = 0])
     /\ SetCall(r, Reported([r EXCEPT !.pc = "done"], <<>>,
                            IF res.ok THEN <<100, 0>> ELSE <<0>>))
     /\ UNCHANGED <<applied, vfile, vresult, vdone, ops>>

\* handleReset (the button is rendered only while originalFile is set)
Reset ==
  /\ ops < MaxOps
  /\ originalFile # Null
  /\ SetUi([Ui EXCEPT !.originalFile = Null, !.compressedBlob = Null,
                      !.compressedPreview = Null, !.compressedDimensions = Null,
                      !.fileType = "image", !.quality = InitialQuality,
                      !.processingProgress = 0, !.scanPhase = "file-check",
                      !.scanResults = [safe |-> TRUE, warnings |-> <<>>]])
  /\ acted' = [IdleCall EXCEPT !.kind = "reset", !.pc = "done"]
  /\ ops' = ops + 1
  /\ UNCHANGED <<applied, vfile, vresult, vdone, calls, timers>>

Init ==
  /\ NotApplied
  /\ vfile = Null
  /\ vresult = NoResult
  /\ vdone = FALSE
  /\ InitUi

Next ==
  \/ \E f \in PipeFiles : SelectFile(f)
  \/ \E r \in InFlight : FileCheck(r)
  \/ \E r \in InFlight : VirusScan(r)
  \/ \E r \in InFlight, proceed \in BOOLEAN : ContentScan(r, proceed)
  \/ \E r \in InFlight, envOk \in BOOLEAN : SelectImageDone(r, envOk)
  \/ TimerFire
  \/ \E r \in InFlight : PdfRead(r)
  \/ \E r \in InFlight, ok \in BOOLEAN : PdfLoad(r, ok)
  \/ \E r \in InFlight, ok \in BOOLEAN : PdfPage(r, ok)
  \/ \E r \in InFlight, ok \in BOOLEAN : PdfSave(r, ok)
  \/ \E r \in InFlight, ok \in BOOLEAN : PdfFallback(r, ok)
  \/ \E q \in QualityChoices : ChangeQuality(q)
  \/ \E r \in InFlight, envOk \in BOOLEAN : QualityImageDone(r, envOk)
  \/ Reset

Spec == Init /\ [][Next]_vars

\* ------------------------------------------------------------------------
\* SpecPdf: one document of PdfDocuments is selected and goes through the
\* admission into compressPDF
\* ------------------------------------------------------------------------
NextPdf ==
  \/ \E f \in PdfDocuments : ops = 0 /\ SelectFile(f)
  \/ \E r \in InFlight : FileCheck(r)
  \/ \E r \in InFlight : VirusScan(r)
  \/ \E r \in InFlight, proceed \in BOOLEAN : ContentScan(r, proceed)
  \/ TimerFire
  \/ \E r \in InFlight : PdfRead(r)
  \/ \E r \in InFlight, ok \in BOOLEAN : PdfLoad(r, ok)
  \/ \E r \in InFlight, ok \in BOOLEAN : PdfPage(r, ok)
  \/ \E r \in InFlight, ok \in BOOLEAN : PdfSave(r, ok)
  \/ \E r \in InFlight, ok \in BOOLEAN : PdfFallback(r, ok)

SpecPdf == Init /\ [][NextPdf]_vars

\* ------------------------------------------------------------------------
\* SpecValidate: validateFile applied to every well-formed file
\* ------------------------------------------------------------------------
InitValidate ==
  /\ NotApplied
  /\ vfile \in {f \in Files : WellFormed(f)}
  /\ vresult = NoResult
  /\ vdone = FALSE
  /\ InitUi

Validate ==
  /\ ~vdone
  /\ vfile # Null
  /\ vresult' = validateFile(vfile)
  /\ vdone' = TRUE
  /\ UNCHANGED <<applied, vfile, ui, calls, timers, acted, ops>>

NextValidate == Validate

SpecValidate == InitValidate /\ [][NextValidate]_vars

\* ------------------------------------------------------------------------
\* SpecScan: scanFile applied to every file of ScanFiles
\* ------------------------------------------------------------------------
NotValidating ==
  /\ vfile = Null
  /\ vresult = NoResult
  /\ vdone = FALSE

InitScan ==
  /\ input \in ScanFiles
  /\ output = Null
  /\ returned = FALSE
  /\ NotValidating
  /\ InitUi

Scan ==
  /\ ~returned
  /\ output' = scanFile(input)
  /\ returned' = TRUE
  /\ UNCHANGED <<input, vfile, vresult, vdone, ui, calls, timers, acted, ops>>

NextScan == Scan

SpecScan == InitScan /\ [][NextScan]_vars

\* ------------------------------------------------------------------------
\* SpecTranscode: compressImage applied to every image of SourceImages
\* ------------------------------------------------------------------------
InitTranscode ==
  /\ input \in [file : SourceImages, quality : QualityChoices]
  /\ output = Null
  /\ returned = FALSE
  /\ NotValidating
  /\ InitUi

Transcode ==
  /\ ~returned
  /\ output' = compressImage(input.file, input.quality, TRUE)
  /\ returned' = TRUE
  /\ UNCHANGED <<input, vfile, vresult, vdone, ui, calls, timers, acted, ops>>

NextTranscode == Transcode

SpecTranscode == InitTranscode /\ [][NextTranscode]_vars

\* ------------------------------------------------------------------------
\* Properties of the admission pipeline (checked under Spec)
\* ------------------------------------------------------------------------
\* the admissions in flight, and the one that took the latest step
AdmissionRecords == { r \in InFlight \cup {acted} : r.kind = "select" }

\* validateFile has returned valid=false for the call's file
Rejected(r) == r.kind = "select" /\ r.vres.error # "none" /\ ~r.vres.valid

Idle == scanPhase = "file-check" /\ processingProgress = 0 /\ ~isProcessing

\* C1: when validateFile returns valid=false, scanFile is never invoked for
\* that file and no transcoder is started for it; the admission ends there,
\* and the step that receives the rejection leaves the pipeline idle: phase
\* file-check, progress 0, not processing.
C1_RejectionShortCircuits ==
  /\ \A r \in AdmissionRecords :
       Rejected(r) => (~r.scanned /\ r.transcoder = "none" /\ r.pc = "done")
  /\ Rejected(acted) => Idle

C1_Witness ==
  /\ Rejected(acted)
  /\ acted.pc = "done"
  /\ ~acted.scanned
  /\ acted.transcoder = "none"
  /\ Idle
  /\ ops > 1

\* the call's file is one for which scanFile returns safe=false
Unsafe(r) == r.kind = "select" /\ ~ScanOf[r.file].safe

\* C2: an admission whose file scanFile finds unsafe never starts a
\* transcoder, never reports the phases compression or complete, ends when
\* the scan returns, and none of its steps changes originalFile,
\* compressedBlob or compressedDimensions.
C2_ThreatAborts ==
  [][Unsafe(acted') =>
       /\ acted'.transcoder = "none"
       /\ \A i \in 1..Len(acted'.phases) :
            acted'.phases[i] \notin {"compression", "complete"}
       /\ acted'.scanned => (~acted'.sres.safe /\ acted'.pc = "done")
       /\ UNCHANGED <<originalFile, compressedBlob, compressedDimensions>>]_vars

C2_Witness ==
  /\ acted.kind = "select"
  /\ acted.scanned
  /\ ~acted.sres.safe
  /\ acted.pc = "done"
  /\ acted.transcoder = "none"
  /\ originalFile # Null
  /\ originalFile # acted.file
  /\ compressedBlob # Null

\* C3: with a safe verdict that carries warnings the transcoder starts only
\* after the continue/abort question was asked once and answered continue;
\* after the answer abort no transcoder runs and the step leaves originalFile
\* as it was; without warnings the question is not asked; nothing else in
\* the pipeline asks the caller anything.
C3_WarningPrompt ==
  [][LET r == acted'
         warned == r.scanned /\ r.sres.safe /\ Len(r.sres.warnings) > 0
     IN /\ (warned /\ r.transcoder # "none") => (r.asked = 1 /\ r.answer = "continue")
        /\ r.answer = "abort" =>
             (r.transcoder = "none" /\ r.pc = "done" /\ originalFile' = originalFile)
        /\ r.asked > 0 => (r.kind = "select" /\ warned /\ r.asked = 1
                            /\ r.pc \notin {"fileCheck", "virusScan", "contentScan"})
        /\ (r.asked = 0) = (r.answer = "none")]_vars

C3_Witness ==
  /\ acted.answer = "abort"
  /\ acted.transcoder = "none"
  /\ originalFile # Null
  /\ \E r \in InFlight :
       /\ r.answer = "continue"
       /\ r.transcoder = "image"

IsPrefix(s, t) == Len(s) <= Len(t) /\ \A i \in 1..Len(s) : s[i] = t[i]

\* the values a sequence of reports takes: consecutive repetitions removed
RECURSIVE Values(_)
Values(s) ==
  IF Len(s) <= 1 THEN s
  ELSE IF s[1] = s[2] THEN Values(Tail(s))
  ELSE <<s[1]>> \o Values(Tail(s))

Front(s) == SubSeq(s, 1, Len(s) - 1)

\* the phases the call reported up to and including the first 'complete'
RECURSIVE UntilComplete(_)
UntilComplete(s) ==
  IF s = <<>> THEN s
  ELSE IF s[1] = "complete" THEN <<s[1]>>
  ELSE <<s[1]>> \o UntilComplete(Tail(s))

\* C4 as stated: until complete is reached the phases an admission reports
\* are a prefix of file-check, virus-scan, content-scan, compression,
\* complete, with no move back to an earlier phase.
C4_Original ==
  \A r \in AdmissionRecords : IsPrefix(Values(UntilComplete(r.phases)), PhaseOrder)

\* C4 (amended): the phases an admission reports are a prefix of file-check,
\* virus-scan, content-scan, compression, complete, in that order and with
\* none skipped; the only move to an earlier phase is a reset to file-check:
\* the last report of an admission that is rejected or aborted, or the report
\* of the timer that an admission leaves behind when its handler returns.
C4_PhaseOrder ==
  /\ \A r \in AdmissionRecords :
       LET v == Values(r.phases)
       IN \/ IsPrefix(v, PhaseOrder)
          \/ /\ r.pc = "done"
             /\ Len(v) >= 2
             /\ v[Len(v)] = "file-check"
             /\ IsPrefix(Front(v), PhaseOrder)
  /\ acted.kind = "timer" => (acted.phases = <<"file-check">> /\ scanPhase = "file-check")

C4_Witness ==
  /\ acted.kind = "select"
  /\ acted.pc = "done"
  /\ Values(acted.phases) = <<"file-check", "virus-scan", "file-check">>
  /\ timers > 0
  /\ compressedBlob # Null

\* the progress values an admission reported before the reset that ends it
ProgressBeforeEnd(r) ==
  IF r.pc = "done" /\ r.progs[Len(r.progs)] = 0 THEN Front(r.progs) ELSE r.progs

NonDecreasing(s) == \A i \in 1..(Len(s) - 1) : s[i] <= s[i + 1]

\* C5: within one admission every progress percentage reported before the
\* admission ends is at least the one reported before it, for images and
\* for PDF documents.
C5_ProgressMonotone ==
  \A r \in AdmissionRecords : NonDecreasing(ProgressBeforeEnd(r))

\* ------------------------------------------------------------------------
\* Properties of validateFile (checked under SpecValidate)
\* ------------------------------------------------------------------------
\* C6: the declared media type never gates admission: the same name, size
\* and bytes under any other declared media type get the same accept/reject
\* outcome and the same resolved media type.
C6_DeclaredTypeIrrelevant ==
  vdone =>
    \A t \in DeclaredTypes :
      LET other == validateFile([vfile EXCEPT !.type = t])
      IN other.valid = vresult.valid /\ other.fileType = vresult.fileType

SizeInBounds(f) == f.size >= 100 /\ f.size <= 50 * 1024 * 1024

\* the names of the model with no forbidden character, no denylisted
\* extension and at most 255 characters
CleanNames == {NameJpg, NamePng, NamePdf, NameNoDot}

StartsWithJpegMagic(f) ==
  f.size >= 3 /\ ByteAt(f, 0) = 255 /\ ByteAt(f, 1) = 216 /\ ByteAt(f, 2) = 255

DecodesWithinLimit(f) ==
  f.decode = "ok" /\ f.width <= 10000 /\ f.height <= 10000

\* C7: a file that passes the size and name gates, starts with FF D8 FF and
\* decodes as an image within the dimension limit is accepted as image/jpeg,
\* whatever its declared media type and its extension.
C7_JpegAccepted ==
  (vdone /\ SizeInBounds(vfile) /\ vfile.name \in CleanNames
     /\ StartsWithJpegMagic(vfile) /\ DecodesWithinLimit(vfile))
    => (vresult.valid /\ vresult.fileType = "image/jpeg")

\* C8: an accepted file has passed the structural probe of its resolved
\* media type: the decode probe for an image type, the %%EOF trailer check
\* for application/pdf.
C8_ProbeOfResolvedType ==
  (vdone /\ vresult.valid) =>
    /\ vresult.fileType \in ImageTypes =>
         (vresult.probe = "image" /\ DecodesWithinLimit(vfile))
    /\ vresult.fileType = "application/pdf" =>
         (vresult.probe = "pdf" /\ Includes(SliceLast(vfile, 20), <<37, 37, 69, 79, 70>>))

\* the names of the model that end in a denylisted extension and carry no
\* forbidden character
ExecutableNames == {NamePdfExe, NameUpperExe, NameJs, NameLongExe}

\* C9: a file within the size bounds whose name has no forbidden character
\* and ends, in any letter case, in a denylisted extension is rejected with
\* the executable-extension reason before any byte of it is read, whatever
\* its bytes are.
C9_ExecutableRejected ==
  (vdone /\ SizeInBounds(vfile) /\ vfile.name \in ExecutableNames) =>
    /\ ~vresult.valid
    /\ vresult.error = "executable"
    /\ vresult.reads = 0
    /\ vresult.probe = "none"

C9_Witness ==
  /\ vdone
  /\ vfile.name = NamePdfExe
  /\ SizeInBounds(vfile)
  /\ vfile.type = "application/pdf"
  /\ readFileBytes(vfile, 0, 4) = <<37, 80, 68, 70>>
  /\ vresult.error = "executable"

\* C10: a file below 100 bytes is rejected as too small and a file above
\* 50 MiB as too large, with no other gate run and no byte read; files of
\* exactly 100 bytes and of exactly 50 MiB pass the size gate.
C10_SizeGate ==
  vdone =>
    /\ vfile.size < 100 =>
         (~vresult.valid /\ vresult.error = "too-small"
            /\ vresult.ran = <<"size">> /\ vresult.reads = 0)
    /\ vfile.size > 50 * 1024 * 1024 =>
         (~vresult.valid /\ vresult.error = "too-large"
            /\ vresult.ran = <<"size">> /\ vresult.reads = 0)
    /\ vfile.size \in {100, 50 * 1024 * 1024} =>
         (Len(vresult.ran) >= 2 /\ vresult.error \notin {"too-small", "too-large"})

C10_Witness ==
  /\ vdone
  /\ vfile.size = 99
  /\ vfile.name = NamePdfExe
  /\ vresult.error = "too-small"

\* ------------------------------------------------------------------------
\* Properties of scanFile (checked under SpecScan)
\* ------------------------------------------------------------------------
\* C11: on every verdict scanFile returns, safe is false exactly when the
\* threats list is non-empty; warnings of any kind do not change safe.
C11_SafeIffNoThreats ==
  returned => (output.safe = (Len(output.threats) = 0))

\* a file that earns four kinds of warning (name, content, structure twice)
\* and no threat
C11_Witness ==
  /\ returned
  /\ output.safe
  /\ output.threats = <<>>
  /\ output.warnings = <<"double-extension", "suspicious-commands", "hidden-stream">>

\* ------------------------------------------------------------------------
\* Properties of compressImage (checked under SpecTranscode)
\* ------------------------------------------------------------------------
\* C12: for a source of width and height in 1..10000 the canvas the
\* transcoder draws on is at most 1920 wide and 1080 high when the source
\* exceeds 1920 in width or 1080 in height, and has the source's dimensions
\* when the source is within 1920x1080.
C12_OutputWithinBounds ==
  returned =>
    LET w == input.file.width
        h == input.file.height
    IN IF w > 1920 \/ h > 1080
         THEN output.canvas.width <= 1920 /\ output.canvas.height <= 1080
         ELSE output.canvas = [width |-> w, height |-> h]

\* a source that only the second clamp brings within the bounds
C12_Witness ==
  /\ returned
  /\ input.file.width = 1921
  /\ input.file.height = MaxImageDimension
  /\ output.ok
  /\ output.dimensions = [width |-> 207, height |-> 1080]

\* C13: for an accepted image the transcoder asks for PNG exactly when the
\* media type validateFile resolved from the signature is image/png, and for
\* JPEG at the chosen quality otherwise; for a PNG source the request does
\* not depend on the quality.
C13_FormatOfResolvedType ==
  (returned /\ output.ok /\ validateFile(input.file).valid) =>
    IF validateFile(input.file).fileType = "image/png"
      THEN /\ output.blob.type = "image/png"
           /\ output.blob.encoderQuality = 100
      ELSE /\ output.blob.type = "image/jpeg"
           /\ output.blob.encoderQuality = input.quality

\* the threats of one kind in a scan result
ThreatsOf(result, kind) == { i \in 1..Len(result.threats) : result.threats[i] = kind }

\* C20: a file whose scanned text (the first min(size, 1 MiB) bytes, once
\* read) matches a dangerous pattern is reported unsafe with threats, and the
\* pattern check contributes exactly one threat however many patterns match.
C20_OnePatternThreat ==
  (returned /\ input.readable /\ MatchingPatterns(ScannedText(input)) # {}) =>
    /\ ~output.safe
    /\ output.threats # <<>>
    /\ Cardinality(ThreatsOf(output, "dangerous-pattern")) = 1

\* two patterns match ('<script>' and 'eval (') and one threat is recorded
C20_Witness ==
  /\ returned /\ input.readable
  /\ Cardinality(MatchingPatterns(ScannedText(input))) = 2
  /\ output.threats = <<"dangerous-pattern">>
  /\ ~output.safe

\* the bytes scanFileStructure examines
StructureWindow(f) == readFileBytes(f, 0, Min(f.size, StructureScanLimit))

\* the marker ':$DATA' at some offset of the byte sequence, the last one included
MarkerOccurs(bytes) ==
  \E i \in 0..(Len(bytes) - Len(adsPattern)) :
    \A j \in 1..Len(adsPattern) : bytes[i + j] = adsPattern[j]

\* C19: a file with ':$DATA' anywhere in its first min(size, 512) bytes, the
\* last six bytes of that window included, gets the hidden-stream warning.
C19_MarkerAnywhereWarns ==
  (returned /\ input.readable /\ MarkerOccurs(StructureWindow(input))) =>
    \E i \in 1..Len(output.warnings) : output.warnings[i] = "hidden-stream"

\* what the file name alone contributes to the verdict
NameVerdict(f) == scanFileName(f.name, EmptyScan)

\* C18: scanFile always returns a verdict, and when the reads of the content
\* or structural scan fail the error is recorded as a warning (one more entry
\* than the file name alone gives) and never as a threat.
C18_ScanErrorsRecorded ==
  returned =>
    /\ output.safe \in BOOLEAN
    /\ ~input.readable =>
         /\ Len(output.warnings) > Len(NameVerdict(input).warnings)
         /\ output.threats = NameVerdict(input).threats

\* ------------------------------------------------------------------------
\* The target-service catalogue and getSuitableServices
\* ------------------------------------------------------------------------
Service(key, maxWidth, maxHeight, maxSize) ==
  [key |-> key, maxWidth |-> maxWidth, maxHeight |-> maxHeight, maxSize |-> maxSize]

\* const services: Record<string, ServiceConfig>, in declaration order
services ==
  << Service("instagram", 1080, 1080, 8 * MiB),
     Service("line", 1024, 1024, 10 * MiB),
     Service("web", 1200, 800, 15 * MiB),
     Service("mobile", 750, 1334, 5 * MiB),
     Service("email", 800, 600, 5 * MiB),
     Service("youtube", 1280, 720, 20 * MiB),
     Service("facebook", 1200, 630, 8 * MiB),
     Service("print", 1920, 1080, 10 * MiB) >>

\* a plausible slip: the height bound is not compared
getSuitableServicesIgnoringHeight(blob, dimensions) ==
  IF blob = Null \/ dimensions = Null THEN <<>>
  ELSE LET fits(service) == /\ blob.size <= service.maxSize
                            /\ dimensions.width <= service.maxWidth
       IN SelectSeq(services, fits)

getSuitableServices(blob, dimensions) ==
  IF blob = Null \/ dimensions = Null THEN <<>>
  ELSE LET fits(service) == /\ blob.size <= service.maxSize
                            /\ dimensions.width <= service.maxWidth
                            /\ dimensions.height <= service.maxHeight
       IN SelectSeq(services, fits)

\* the outputs presented to getSuitableServices: sizes and dimensions on
\* both sides of every bound of the catalogue, and the states with no output
OutputSizes == {0, 2 * MiB, 5 * MiB, 5 * MiB + 1, 8 * MiB, 8 * MiB + 1, 10 * MiB,
                10 * MiB + 1, 15 * MiB + 1, 20 * MiB, 20 * MiB + 1}
OutputWidths == {1, 600, 750, 751, 800, 801, 1024, 1080, 1081, 1200, 1280, 1281, 1920}
OutputHeights == {1, 400, 600, 601, 630, 720, 800, 1024, 1025, 1080, 1334, 1335}
OutputBlobs == { [size |-> n] : n \in OutputSizes } \cup {Null}
OutputDimensions ==
  { [width |-> w, height |-> h] : w \in OutputWidths, h \in OutputHeights } \cup {Null}

\* ------------------------------------------------------------------------
\* SpecSuitable: getSuitableServices applied to every output
\* ------------------------------------------------------------------------
InitSuitable ==
  /\ input \in [compressedBlob : OutputBlobs, compressedDimensions : OutputDimensions]
  /\ output = Null
  /\ returned = FALSE
  /\ NotValidating
  /\ InitUi

Suitable ==
  /\ ~returned
  /\ output' = getSuitableServices(input.compressedBlob, input.compressedDimensions)
  /\ returned' = TRUE
  /\ UNCHANGED <<input, vfile, vresult, vdone, ui, calls, timers, acted, ops>>

NextSuitable == Suitable

SpecSuitable == InitSuitable /\ [][NextSuitable]_vars

\* the keys of the returned entries
ReturnedKeys == { output[i].key : i \in 1..Len(output) }

\* C17: for an output of given size and dimensions getSuitableServices
\* returns each catalogue entry once if all three of its bounds are at least
\* the output's, and no entry with a bound below the output; for a 600x400
\* output of 2 MiB these are all eight entries.
C17_ExactlyFittingServices ==
  (returned /\ input.compressedBlob # Null /\ input.compressedDimensions # Null) =>
    /\ \A k \in 1..Len(services) :
         services[k].key \in ReturnedKeys <=>
           /\ services[k].maxSize >= input.compressedBlob.size
           /\ services[k].maxWidth >= input.compressedDimensions.width
           /\ services[k].maxHeight >= input.compressedDimensions.height
    /\ Cardinality(ReturnedKeys) = Len(output)
    /\ \A i \in 1..Len(output) : \E k \in 1..Len(services) : output[i] = services[k]
    /\ (/\ input.compressedBlob.size = 2 * MiB
        /\ input.compressedDimensions = [width |-> 600, height |-> 400])
         => Len(output) = 8

\* a 600x400 output of 2 MiB fits all eight services
C17_Witness ==
  /\ returned
  /\ input = [compressedBlob |-> [size |-> 2 * MiB],
              compressedDimensions |-> [width |-> 600, height |-> 400]]
  /\ output = services

\* C14: a document stored by the optimized path of compressPDF has exactly
\* the N pages of its source, page i built from source page i, each with the
\* width and height of the image rendered for that page.
C14_PagesPreserved ==
  (compressedBlob # Null /\ compressedBlob.kind = "pdf" /\ compressedBlob.mode = "optimized") =>
    LET doc == compressedBlob.pageList
        src == compressedBlob.src
    IN /\ Len(doc) = src.pages
       /\ \A i \in 1..Len(doc) :
            /\ doc[i].source = i
            /\ doc[i].width = 100 * RenderedImage(src, i).width
            /\ doc[i].height = 100 * RenderedImage(src, i).height

\* a document of seven pages went through the optimized path
C14_Witness ==
  /\ compressedBlob # Null
  /\ compressedBlob.kind = "pdf"
  /\ compressedBlob.mode = "optimized"
  /\ compressedBlob.src.pages = 7
  /\ Len(compressedBlob.pageList) = 7
  /\ compressedBlob.pageList[7] = [source |-> 7, width |-> 79200, height |-> 61200]

\* the steps of the optimized path of compressPDF
OptimizedSteps == {"pdfLoad", "pdfPage", "pdfSave"}

\* the invocation that took the latest step is inside compressPDF at pc and
\* takes the next step
StepsFrom(pcs) == acted \in InFlight /\ acted.pc \in pcs /\ acted' # acted

\* the invocation has left compressPDF (the caller arms its timer or is done)
Left(r) == r.pc \in {"timer", "done"}

\* C15: a step of the optimized path of compressPDF either goes on, or
\* returns the complete rebuilt document, or (on failure) hands over to the
\* fallback with nothing stored: the call never ends there without a
\* document.  The fallback stores the re-serialised original pages or, if
\* its own load or save fails, the call fails and nothing is stored.  No
\* stored document is a partly rebuilt one.
C15_FallbackOnFailure ==
  [][ /\ StepsFrom(OptimizedSteps) =>
           \/ /\ ~Left(acted')
              /\ acted'.pc \in OptimizedSteps \cup {"pdfFallback"}
              /\ compressedBlob' = compressedBlob
           \/ /\ Left(acted')
              /\ acted.pc = "pdfSave"
              /\ compressedBlob' = PdfBlob(acted.file, acted.q, "optimized",
                                           [i \in 1..acted.file.pages |-> OutputPage(acted.file, i)])
      /\ StepsFrom({"pdfFallback"}) =>
           /\ Left(acted')
           /\ \/ compressedBlob' = PdfBlob(acted.file, acted.q, "fallback",
                                           OriginalPages(acted.file))
              \/ /\ compressedBlob' = compressedBlob
                 /\ \A i \in 1..Len(acted'.phases) : acted'.phases[i] # "complete"
      /\ (compressedBlob' # Null /\ compressedBlob'.kind = "pdf") =>
           Len(compressedBlob'.pageList) = compressedBlob'.src.pages ]_vars

\* the third page of a seven-page document failed after two pages were
\* rebuilt, and the fallback stored the seven original pages
C15_Witness ==
  /\ acted.kind = "select" /\ Left(acted)
  /\ acted.file.pages = 7
  /\ Len(acted.out) = 2
  /\ compressedBlob # Null
  /\ compressedBlob.mode = "fallback"
  /\ compressedBlob.pageList = OriginalPages(acted.file)

\* a handleQualityChange invocation that ended after its transcoder
\* delivered an output (it reported progress 100)
QualityTranscodeDone(r) ==
  /\ r.kind = "quality"
  /\ r.pc = "done"
  /\ \E i \in 1..Len(r.progs) : r.progs[i] = 100

\* C16: when two quality changes of the same source were in flight together
\* and the second of them to finish has now delivered its output, with
\* nothing left in flight, the stored output is the one transcoded at the
\* quality shown to the user (the later request), whichever finished last.
C16_LaterQualityWins ==
  [][ ( /\ QualityTranscodeDone(acted)
        /\ QualityTranscodeDone(acted')
        /\ acted' # acted
        /\ acted'.file = acted.file
        /\ InFlight' = {} )
      => /\ compressedBlob' # Null
         /\ compressedBlob'.src = originalFile'
         /\ compressedBlob'.quality = quality' ]_vars

\* C23: for a source of 1..10000 by 1..10000 pixels that decodes, the size
\* the transcoder gives the canvas is at least one pixel each way.
C23_DimensionsPositive ==
  (returned /\ input.file.decode = "ok"
            /\ input.file.width \in 1..MaxImageDimension
            /\ input.file.height \in 1..MaxImageDimension) =>
    /\ output.canvas.width >= 1
    /\ output.canvas.height >= 1

\* no handler invocation is in flight and no deferred reset is pending
Quiescent == InFlight = {} /\ timers = 0

\* C24: when nothing is in flight, a stored output held together with a
\* file was transcoded from that file.
C24_OutputOfHeldFile ==
  (Quiescent /\ compressedBlob # Null /\ originalFile # Null) =>
    compressedBlob.src = originalFile

\* C25: a stored output or its preview or dimensions exists only while a
\* file is held: after handleReset nothing repopulates them until a new
\* file is admitted.
C25_ClearedAfterReset ==
  originalFile = Null =>
    /\ compressedBlob = Null
    /\ compressedPreview = Null
    /\ compressedDimensions = Null

\* the latest step was taken by an invocation of handleFileSelect or
\* handleQualityChange
HandlerStepped == acted' # acted /\ acted'.kind \in {"select", "quality"}

\* C26: a step of an admission or of a quality change (its completion or
\* abort included) that leaves some admission or transcode in flight leaves
\* isProcessing true.
C26_ProcessingWhileInFlight ==
  [][ (HandlerStepped /\ InFlight' # {}) => isProcessing' ]_vars

\* a deferred reset fires while an admission is in progress
TimerFiresDuringAdmission ==
  /\ timers' = timers - 1
  /\ \E r \in InFlight : r.kind = "select"

\* C27: the deferred reset of a finished admission, firing while another
\* admission is in progress, changes neither isProcessing nor the progress
\* nor the phase.
C27_TimerAffectsOwnAdmission ==
  [][ TimerFiresDuringAdmission =>
        /\ isProcessing' = isProcessing
        /\ processingProgress' = processingProgress
        /\ scanPhase' = scanPhase ]_vars

\* the verdict stored for a file: {safe: scanResult.safe, warnings: scanResult.warnings}
StoredVerdict(f) == [safe |-> ScanOf[f].safe, warnings |-> ScanOf[f].warnings]

\* C28: when nothing is in flight, scanResults is the verdict of the file
\* held as originalFile (the initial verdict when no file is held); an
\* aborted admission has left it as it was.
C28_VerdictOfHeldFile ==
  Quiescent =>
    scanResults = IF originalFile = Null THEN [safe |-> TRUE, warnings |-> <<>>]
                                         ELSE StoredVerdict(originalFile)

\* ------------------------------------------------------------------------
\* handleDownload and the file name it suggests
\* ------------------------------------------------------------------------
SanitizedNameLength == 100

\* .replace(/^\.+/, ''): the name without its leading dots
RECURSIVE StripLeadingDots(_)
StripLeadingDots(name) ==
  IF name # <<>> /\ Head(name) = "." THEN StripLeadingDots(Tail(name)) ELSE name

\* FileSecurityValidator.sanitizeFileName
sanitizeFileName(fileName) ==
  LET replaced == [i \in 1..Len(fileName) |->
                     IF fileName[i] \in dangerousChars THEN "_" ELSE fileName[i]]
      stripped == StripLeadingDots(replaced)
      sanitized == SubSeq(stripped, 1, Min(Len(stripped), SanitizedNameLength))
  IN IF sanitized = <<>> THEN <<"f", "i", "l", "e">> ELSE sanitized

\* const extension = fileType === 'image' ? 'jpg' : 'pdf'
DownloadExtension(ftype) ==
  IF ftype = "image" THEN <<"j", "p", "g">> ELSE <<"p", "d", "f">>

\* handleDownload: the link it clicks (Null when there is no output); now
\* is the text of Date.now()
handleDownload(blob, ftype, now) ==
  IF blob = Null THEN Null
  ELSE LET fileName == <<"c", "o", "m", "p", "r", "e", "s", "s", "e", "d", "_">>
                         \o now \o <<".">> \o DownloadExtension(ftype)
       IN [href |-> blob, download |-> sanitizeFileName(fileName)]

\* the texts of Date.now() tried
Timestamps ==
  { <<"0">>, <<"1", "7", "6", "2", "0", "7", "7", "6", "0", "0", "0", "0", "0">> }

\* the images of SourceImages that validateFile accepts as images
AcceptedImages ==
  { f \in SourceImages : validateFile(f).valid /\ startsWithImage(validateFile(f).fileType) }

\* the output and file type an admission or a quality change leaves stored,
\* and the state with no output
StoredOutputs ==
  { [compressedBlob |-> compressImage(f, q, TRUE).blob, fileType |-> "image"] :
      f \in AcceptedImages, q \in QualityChoices }
  \cup { [compressedBlob |-> PdfBlob(f, q, "optimized",
                                    [i \in 1..f.pages |-> OutputPage(f, i)]),
          fileType |-> "pdf"] : f \in PdfDocuments, q \in QualityChoices }
  \cup { [compressedBlob |-> Null, fileType |-> "image"] }

\* ------------------------------------------------------------------------
\* SpecDownload: handleDownload applied to every stored output
\* ------------------------------------------------------------------------
InitDownload ==
  /\ input \in { [stored |-> st, now |-> t] : st \in StoredOutputs, t \in Timestamps }
  /\ output = Null
  /\ returned = FALSE
  /\ NotValidating
  /\ InitUi

Download ==
  /\ ~returned
  /\ output' = handleDownload(input.stored.compressedBlob, input.stored.fileType, input.now)
  /\ returned' = TRUE
  /\ UNCHANGED <<input, vfile, vresult, vdone, ui, calls, timers, acted, ops>>

NextDownload == Download

SpecDownload == InitDownload /\ [][NextDownload]_vars

\* the extension that belongs to a media type
ExtensionOfType(type) ==
  IF type = "image/png" THEN <<".", "p", "n", "g">>
  ELSE IF type = "image/jpeg" THEN <<".", "j", "p", "g">>
  ELSE <<".", "p", "d", "f">>

\* C29: the file name suggested at download ends with the extension of the
\* output's media type: .png for image/png, .jpg for image/jpeg, .pdf for
\* application/pdf.
C29_ExtensionOfOutputType ==
  (returned /\ input.stored.compressedBlob # Null) =>
    EndsWith(output.download, ExtensionOfType(input.stored.compressedBlob.type))

\* ------------------------------------------------------------------------
\* SpecProbe: the events of one call of validateImageContent.  input is the
\* file, output the state of the call: the resolved flag, the 5-second timer,
\* the image element, the events so far, the calls of resolve so far;
\* returned tells that the promise is settled, output.verdict with what.
\* ------------------------------------------------------------------------
ProbeFiles ==
  { MkFile(NameJpg, MIN_FILE_SIZE, "image/jpeg", HeadJpeg, <<>>, d, TRUE, 0) :
      d \in { x \in Decodes : x.decode # "timeout" }
             \cup { Picture(w, h) : w \in SourceWidths, h \in SourceHeights } }

\* resolve(v): the first call settles the promise, a later one changes nothing
Resolve(st, v) ==
  [st EXCEPT !.resolves = Append(@, v),
             !.verdict = IF st.resolves = <<>> THEN v ELSE @]

\* new Image(); resolved = false; setTimeout(..., 5000); img.src = ...
InitProbe ==
  /\ input \in ProbeFiles
  /\ output = [resolved |-> FALSE, timeout |-> "armed", img |-> "loading",
               events |-> <<>>, resolves |-> <<>>, verdict |-> NoResult]
  /\ returned = FALSE
  /\ NotValidating
  /\ InitUi

\* the callback of setTimeout runs
ProbeTimeout ==
  LET st == [output EXCEPT !.timeout = "fired", !.events = Append(@, "timeout")]
  IN /\ output.timeout = "armed"
     /\ output' = IF ~st.resolved
                    THEN Resolve([st EXCEPT !.resolved = TRUE],
                                 validateImageContent([input EXCEPT !.decode = "timeout"]))
                    ELSE st
     /\ returned' = TRUE
     /\ UNCHANGED <<input, vfile, vresult, vdone, ui, calls, timers, acted, ops>>

\* a plausible slip: img.onload without the test of resolved
ProbeLoadUnguarded ==
  LET st == [output EXCEPT !.img = "loaded", !.events = Append(@, "load")]
  IN /\ output.img = "loading"
     /\ input.decode = "ok"
     /\ output' = Resolve([st EXCEPT !.resolved = TRUE, !.timeout = "cleared"],
                          validateImageContent(input))
     /\ returned' = TRUE
     /\ UNCHANGED <<input, vfile, vresult, vdone, ui, calls, timers, acted, ops>>

\* img.onload runs
ProbeLoad ==
  LET st == [output EXCEPT !.img = "loaded", !.events = Append(@, "load")]
  IN /\ output.img = "loading"
     /\ input.decode = "ok"
     /\ output' = IF ~st.resolved
                    THEN Resolve([st EXCEPT !.resolved = TRUE,
                                            !.timeout = IF @ = "armed" THEN "cleared" ELSE @],
                                 validateImageContent(input))
                    ELSE st
     /\ returned' = TRUE
     /\ UNCHANGED <<input, vfile, vresult, vdone, ui, calls, timers, acted, ops>>

\* img.onerror runs
ProbeError ==
  LET st == [output EXCEPT !.img = "failed", !.events = Append(@, "error")]
  IN /\ output.img = "loading"
     /\ input.decode = "error"
     /\ output' = IF ~st.resolved
                    THEN Resolve([st EXCEPT !.resolved = TRUE,
                                            !.timeout = IF @ = "armed" THEN "cleared" ELSE @],
                                 validateImageContent(input))
                    ELSE st
     /\ returned' = TRUE
     /\ UNCHANGED <<input, vfile, vresult, vdone, ui, calls, timers, acted, ops>>

NextProbe == ProbeTimeout \/ ProbeLoad \/ ProbeError

SpecProbe == InitProbe /\ [][NextProbe]_vars

\* the verdict the first event of the call stands for
VerdictOfEvent(f, event) ==
  IF event = "timeout" THEN Verdict(FALSE, "image-timeout", "")
  ELSE IF event = "error" THEN Verdict(FALSE, "image-corrupt", "")
  ELSE IF f.width > 10000 \/ f.height > 10000 THEN Verdict(FALSE, "image-too-large", "")
  ELSE Verdict(TRUE, "", "")

\* C22: after every event of a decode probe, resolve has been called exactly
\* once, with the verdict of the first event; an event after the first
\* changes neither; a timeout that came first gives a rejection.
C22_OneVerdictPerProbe ==
  [][ /\ Len(output'.resolves) = 1
      /\ output'.verdict = VerdictOfEvent(input, output'.events[1])
      /\ output'.resolves[1] = output'.verdict
      /\ returned => output'.verdict = output.verdict
      /\ output'.events[1] = "timeout" => ~output'.verdict.valid ]_vars

\* the decode of a 600x400 picture completed after the timeout had fired:
\* the verdict is still the rejection by timeout
C22_Witness ==
  /\ returned
  /\ input.width = 600 /\ input.height = 400
  /\ output.events = <<"timeout", "load">>
  /\ output.resolves = <<Verdict(FALSE, "image-timeout", "")>>
  /\ output.verdict = Verdict(FALSE, "image-timeout", "")

\* ------------------------------------------------------------------------
\* SpecLive: admissions (overlapping ones too) under the scheduling of the
\* event loop: a pending timer fires and a settled promise is continued.
\* Selecting a file is the user's choice and is not forced; the blocking
\* prompt of the content scan is answered.
\* ------------------------------------------------------------------------
NextAdmit ==
  \/ \E f \in PipeFiles : SelectFile(f)
  \/ \E r \in InFlight : FileCheck(r)
  \/ \E r \in InFlight : VirusScan(r)
  \/ \E r \in InFlight, proceed \in BOOLEAN : ContentScan(r, proceed)
  \/ \E r \in InFlight, envOk \in BOOLEAN : SelectImageDone(r, envOk)
  \/ TimerFire
  \/ \E r \in InFlight : PdfRead(r)
  \/ \E r \in InFlight, ok \in BOOLEAN : PdfLoad(r, ok)
  \/ \E r \in InFlight, ok \in BOOLEAN : PdfPage(r, ok)
  \/ \E r \in InFlight, ok \in BOOLEAN : PdfSave(r, ok)
  \/ \E r \in InFlight, ok \in BOOLEAN : PdfFallback(r, ok)

Fairness ==
  /\ WF_vars(TimerFire)
  /\ WF_vars(\E r \in InFlight : FileCheck(r))
  /\ WF_vars(\E r \in InFlight : VirusScan(r))
  /\ WF_vars(\E r \in InFlight, proceed \in BOOLEAN : ContentScan(r, proceed))
  /\ WF_vars(\E r \in InFlight, envOk \in BOOLEAN : SelectImageDone(r, envOk))
  /\ WF_vars(\E r \in InFlight : PdfRead(r))
  /\ WF_vars(\E r \in InFlight, ok \in BOOLEAN : PdfLoad(r, ok))
  /\ WF_vars(\E r \in InFlight, ok \in BOOLEAN : PdfPage(r, ok))
  /\ WF_vars(\E r \in InFlight, ok \in BOOLEAN : PdfSave(r, ok))
  /\ WF_vars(\E r \in InFlight, ok \in BOOLEAN : PdfFallback(r, ok))

SpecLive == Init /\ [][NextAdmit]_vars /\ Fairness

\* C21: once the phase is complete the pipeline comes back to the idle
\* state (phase file-check, progress 0, not processing); the deferred reset
\* that brings it back leaves the file and the output as they are; and a
\* file selected then starts an admission at file-check, progress 5,
\* processing.
C21_CompleteReturnsToIdle ==
  /\ (scanPhase = "complete") ~> Idle
  /\ [][ timers' < timers =>
           UNCHANGED <<originalFile, compressedBlob, compressedPreview, compressedDimensions>> ]_vars
  /\ [][ (acted' # acted /\ acted'.kind = "select" /\ acted'.pc = "fileCheck") =>
           /\ scanPhase' = "file-check"
           /\ processingProgress' = 5
           /\ isProcessing'
           /\ acted'.phases = <<"file-check">> ]_vars

\* after two selections a PDF admission has completed and the deferred
\* resets have brought the pipeline back to idle, the document and its
\* output retained
C21_Witness ==
  /\ ops = 2
  /\ Quiescent
  /\ Idle
  /\ acted.kind = "timer"
  /\ compressedBlob # Null
  /\ originalFile # Null
  /\ compressedBlob.src = originalFile
  /\ compressedBlob.kind = "pdf"

====
